---- MODULE Spec2Model ----
(***************************************************************************)
(* Model of the transaction processor (src/src/lib.rs) and of the checked  *)
(* currency arithmetic it rests on (src/src/numeric.rs).                   *)
(*                                                                         *)
(* A CurrencyAmount is modelled as an integer number of smallest currency  *)
(* units, all amounts having one common scale; the representable range of  *)
(* the decimal mantissa is scaled down to -MaxMagnitude .. MaxMagnitude so *)
(* that overflow is reachable. The stream names one client and two         *)
(* transaction ids; amounts of either sign and zero are accepted, as the   *)
(* reader accepts them. SpecClients is the stream of two clients, with the *)
(* report generated at any point of it; SpecFreshIds is the stream of one  *)
(* client over four transaction ids. SpecNumeric applies the operations of *)
(* CurrencyAmount to inputs drawn at the start: the checked sum to two     *)
(* integer amounts, formatting and parsing to amounts with a scale (a      *)
(* mantissa and a number of fractional digits) and to short texts.         *)
(***************************************************************************)
EXTENDS Integers, FiniteSets, Sequences, TLC

\* The field names of the records below. TLC orders the fields of a record by
\* the first occurrence of their names, so they are named here once, and every
\* record below is written with its fields in this order.
FieldNames ==
    DOMAIN [ok |-> 0, value |-> 0, error |-> 0,
            kind |-> 0, client |-> 0, tx |-> 0, err |-> 0, type |-> 0,
            amount |-> 0,
            available |-> 0, held |-> 0, total |-> 0, transactions |-> 0,
            active_disputes |-> 0, locked |-> 0,
            result |-> 0, account |-> 0, transaction |-> 0, clients |-> 0,
            generated |-> 0, rows |-> 0,
            mantissa |-> 0, scale |-> 0,
            op |-> 0, lhs |-> 0, rhs |-> 0, out |-> 0, decimal |-> 0,
            text |-> 0, parsed |-> 0, shown |-> 0,
            flipped |-> 0]

\* Largest representable magnitude of a CurrencyAmount (scaled down).
MaxMagnitude == 3

\* The client ids (u16) that occur in the input stream.
ClientId == {1}

\* The transaction ids (u32) that occur in the input stream.
TransactionId == {1, 2}

\* Every value a CurrencyAmount can hold (parsing rejects anything larger).
CurrencyAmount == (0 - MaxMagnitude)..MaxMagnitude

ZERO == 0

is_negative(a) == a < ZERO

\* Result of a checked arithmetic operation.
CurrencyOk(v) == [ok |-> TRUE, value |-> v, error |-> ""]
CurrencyErr(e) == [ok |-> FALSE, value |-> ZERO, error |-> e]

InRange(v) == v \in CurrencyAmount

\* The value left in a register of the width of the range by a sum that is
\* not checked.
Wrapped(v) ==
    ((v + MaxMagnitude) % (2 * MaxMagnitude + 1)) - MaxMagnitude

\* Add with wrapping_add in place of checked_add.
Add_Wrapping(a, b) == CurrencyOk(Wrapped(a + b))

\* Add that stops at the end of the range instead of failing.
Add_Saturating(a, b) ==
    CurrencyOk(IF a + b > MaxMagnitude THEN MaxMagnitude
               ELSE IF a + b < 0 - MaxMagnitude THEN 0 - MaxMagnitude
               ELSE a + b)

\* impl Add for CurrencyAmount: checked_add, OutOfBounds on overflow.
Add(a, b) ==
    IF InRange(a + b) THEN CurrencyOk(a + b) ELSE CurrencyErr("OutOfBounds")

\* impl Sub for CurrencyAmount: checked_sub, OutOfBounds on overflow.
Sub(a, b) ==
    IF InRange(a - b) THEN CurrencyOk(a - b) ELSE CurrencyErr("OutOfBounds")

\* impl Neg for CurrencyAmount.
Neg(a) == 0 - a

(***************************************************************************)
(* The text of a CurrencyAmount. Where the text matters an amount is its   *)
(* Decimal: a signed mantissa and a scale, the number of fractional        *)
(* digits; a text is a sequence of characters. The texts and amounts that  *)
(* are drawn are short, far from the 96 bits of the mantissa.              *)
(***************************************************************************)
\* Length of the longest text that is parsed.
MaxLen == 4

\* Largest mantissa and largest scale of the amounts that are formatted.
MaxShown == 12
MaxScale == 2

Dec(m, s) == [mantissa |-> m, scale |-> s]

\* Result<CurrencyAmount, CurrencyAmountParseError>
Parsed(v) == [ok |-> TRUE, value |-> v, error |-> ""]
InvalidNumericValue ==
    [ok |-> FALSE, value |-> Dec(0, 0), error |-> "InvalidNumericValue"]

Digit == <<"0", "1", "2", "3", "4", "5", "6", "7", "8", "9">>

IsDigit(c) == \E i \in 1..10 : Digit[i] = c

DigitValue(c) == (CHOOSE i \in 1..10 : Digit[i] = c) - 1

\* The decimal digits of a natural number, without leading zeros.
RECURSIVE Digits(_)
Digits(n) ==
    IF n < 10 THEN <<Digit[n + 1]>>
    ELSE Append(Digits(n \div 10), Digit[(n % 10) + 1])

\* The natural number written by a sequence of digits.
RECURSIVE ToNumber(_)
ToNumber(digits) ==
    IF digits = <<>> THEN 0
    ELSE ToNumber(SubSeq(digits, 1, Len(digits) - 1)) * 10
             + DigitValue(digits[Len(digits)])

RECURSIVE Zeros(_)
Zeros(n) == IF n <= 0 THEN <<>> ELSE <<"0">> \o Zeros(n - 1)

\* Display that writes the shortest text of the value: the trailing zeros
\* of the fraction are dropped.
RECURSIVE to_string_Normalized(_)
to_string_Normalized(a) ==
    IF a.scale > 0 /\ a.mantissa % 10 = 0
    THEN to_string_Normalized(Dec(a.mantissa \div 10, a.scale - 1))
    ELSE LET magnitude == IF a.mantissa < 0 THEN 0 - a.mantissa ELSE a.mantissa
             written == Digits(magnitude)
             digits == Zeros(a.scale + 1 - Len(written)) \o written
             whole == SubSeq(digits, 1, Len(digits) - a.scale)
             fraction == SubSeq(digits, Len(digits) - a.scale + 1, Len(digits))
         IN  (IF a.mantissa < 0 THEN <<"-">> ELSE <<>>)
                 \o whole
                 \o (IF a.scale > 0 THEN <<".">> \o fraction ELSE <<>>)

\* impl Display for CurrencyAmount (Decimal::to_string): the sign of a
\* negative value, the digits of the whole part (at least one), and, when
\* the scale is not zero, the point and as many fractional digits as the
\* scale.
to_string(a) ==
    LET magnitude == IF a.mantissa < 0 THEN 0 - a.mantissa ELSE a.mantissa
        written == Digits(magnitude)
        digits == Zeros(a.scale + 1 - Len(written)) \o written
        whole == SubSeq(digits, 1, Len(digits) - a.scale)
        fraction == SubSeq(digits, Len(digits) - a.scale + 1, Len(digits))
    IN  (IF a.mantissa < 0 THEN <<"-">> ELSE <<>>)
            \o whole
            \o (IF a.scale > 0 THEN <<".">> \o fraction ELSE <<>>)

\* impl FromStr for CurrencyAmount (Decimal::from_str): an optional minus
\* sign, then digits with at most one point among them and at least one
\* digit; the scale is the number of digits after the point, and a zero has
\* no sign.
from_str(value) ==
    LET negative == value # <<>> /\ value[1] = "-"
        body == IF negative THEN Tail(value) ELSE value
        points == {i \in 1..Len(body) : body[i] = "."}
        digits == SelectSeq(body, IsDigit)
        magnitude == ToNumber(digits)
    IN  IF /\ Cardinality(points) <= 1
           /\ digits # <<>>
           /\ Len(digits) + Cardinality(points) = Len(body)
        THEN Parsed(Dec(IF negative THEN 0 - magnitude ELSE magnitude,
                        IF points = {} THEN 0
                        ELSE Len(body) - (CHOOSE i \in points : TRUE)))
        ELSE InvalidNumericValue

(***************************************************************************)
(* TransactionError and the outcome of applying one transaction.           *)
(***************************************************************************)
Ok == [kind |-> "Ok", tx |-> 0, err |-> ""]
TransactionDoesNotExist(tx) == [kind |-> "TransactionDoesNotExist", tx |-> tx, err |-> ""]
TransactionAlreadyExists(tx) == [kind |-> "TransactionAlreadyExists", tx |-> tx, err |-> ""]
DisputeAlreadyExists(tx) == [kind |-> "DisputeAlreadyExists", tx |-> tx, err |-> ""]
DisputeDoesNotExist(tx) == [kind |-> "DisputeDoesNotExist", tx |-> tx, err |-> ""]
CurrencyError(e) == [kind |-> "CurrencyError", tx |-> 0, err |-> e]
AccountIsLocked == [kind |-> "AccountIsLocked", tx |-> 0, err |-> ""]
NotEnoughFunds == [kind |-> "NotEnoughFunds", tx |-> 0, err |-> ""]

\* What a method of ClientAccount leaves behind: its return value and self.
Outcome(res, self) == [result |-> res, account |-> self]

(***************************************************************************)
(* ClientAccount                                                           *)
(***************************************************************************)
EmptyMap == [t \in {} |-> ZERO]

MapInsert(m, k, v) == [t \in DOMAIN m \cup {k} |-> IF t = k THEN v ELSE m[t]]

MapRemove(m, k) == [t \in DOMAIN m \ {k} |-> m[t]]

NewAccount ==
    [available |-> ZERO,
     held |-> ZERO,
     transactions |-> EmptyMap,
     active_disputes |-> {},
     locked |-> FALSE]

total(self) == Add(self.available, self.held)

\* create_dispute marking the dispute before the arithmetic is checked.
create_dispute_InsertFirst(self, tx) ==
    IF tx \notin DOMAIN self.transactions
    THEN Outcome(TransactionDoesNotExist(tx), self)
    ELSE IF tx \in self.active_disputes
    THEN Outcome(DisputeAlreadyExists(tx), self)
    ELSE LET amount == self.transactions[tx]
             marked == [self EXCEPT !.active_disputes = @ \cup {tx}]
             new_held == Add(self.held, amount)
             new_available == Sub(self.available, amount)
         IN  IF ~new_held.ok
             THEN Outcome(CurrencyError(new_held.error), marked)
             ELSE IF ~new_available.ok
             THEN Outcome(CurrencyError(new_available.error), marked)
             ELSE Outcome(Ok,
                      [marked EXCEPT !.held = new_held.value,
                                     !.available = new_available.value])

\* create_dispute that holds the amount without taking it from available.
create_dispute_KeepAvailable(self, tx) ==
    IF tx \notin DOMAIN self.transactions
    THEN Outcome(TransactionDoesNotExist(tx), self)
    ELSE LET amount == self.transactions[tx]
             new_held == Add(self.held, amount)
             new_available == Sub(self.available, amount)
         IN  IF ~new_held.ok
             THEN Outcome(CurrencyError(new_held.error), self)
             ELSE IF ~new_available.ok
             THEN Outcome(CurrencyError(new_available.error), self)
             ELSE IF tx \in self.active_disputes
             THEN Outcome(DisputeAlreadyExists(tx), self)
             ELSE Outcome(Ok,
                      [self EXCEPT !.active_disputes = @ \cup {tx},
                                   !.held = new_held.value])

\* create_dispute without the test of the dispute set: a disputed
\* transaction is disputed again.
create_dispute_Again(self, tx) ==
    IF tx \notin DOMAIN self.transactions
    THEN Outcome(TransactionDoesNotExist(tx), self)
    ELSE LET amount == self.transactions[tx]
             new_held == Add(self.held, amount)
             new_available == Sub(self.available, amount)
         IN  IF ~new_held.ok
             THEN Outcome(CurrencyError(new_held.error), self)
             ELSE IF ~new_available.ok
             THEN Outcome(CurrencyError(new_available.error), self)
             ELSE Outcome(Ok,
                      [self EXCEPT !.active_disputes = @ \cup {tx},
                                   !.held = new_held.value,
                                   !.available = new_available.value])

\* create_dispute that refuses a locked account, as deposit does.
create_dispute_RefusesLocked(self, tx) ==
    IF self.locked
    THEN Outcome(AccountIsLocked, self)
    ELSE IF tx \notin DOMAIN self.transactions
    THEN Outcome(TransactionDoesNotExist(tx), self)
    ELSE LET amount == self.transactions[tx]
             new_held == Add(self.held, amount)
             new_available == Sub(self.available, amount)
         IN  IF ~new_held.ok
             THEN Outcome(CurrencyError(new_held.error), self)
             ELSE IF ~new_available.ok
             THEN Outcome(CurrencyError(new_available.error), self)
             ELSE IF tx \in self.active_disputes
             THEN Outcome(DisputeAlreadyExists(tx), self)
             ELSE Outcome(Ok,
                      [self EXCEPT !.active_disputes = @ \cup {tx},
                                   !.held = new_held.value,
                                   !.available = new_available.value])

\* ClientAccount::create_dispute
create_dispute(self, tx) ==
    IF tx \notin DOMAIN self.transactions
    THEN Outcome(TransactionDoesNotExist(tx), self)
    ELSE LET amount == self.transactions[tx]
             new_held == Add(self.held, amount)
             new_available == Sub(self.available, amount)
         IN  IF ~new_held.ok
             THEN Outcome(CurrencyError(new_held.error), self)
             ELSE IF ~new_available.ok
             THEN Outcome(CurrencyError(new_available.error), self)
             ELSE IF tx \in self.active_disputes
             THEN Outcome(DisputeAlreadyExists(tx), self)
             ELSE Outcome(Ok,
                      [self EXCEPT !.active_disputes = @ \cup {tx},
                                   !.held = new_held.value,
                                   !.available = new_available.value])

\* resolve_dispute with its slips as parameters: credit is the set of
\* resolutions that add the amount back to available, skipped the set of
\* commit steps ("dispute", "record", "lock") that are left out.
ResolveWith(self, tx, resolution, credit, skipped) ==
    IF tx \notin DOMAIN self.transactions
    THEN Outcome(TransactionDoesNotExist(tx), self)
    ELSE LET amount == self.transactions[tx]
             new_held == Sub(self.held, amount)
             new_available ==
                 IF resolution \in credit
                 THEN Add(self.available, amount)
                 ELSE CurrencyOk(self.available)
             chargeback == resolution = "Chargeback"
             undisputed ==
                 IF "dispute" \in skipped
                 THEN self
                 ELSE [self EXCEPT !.active_disputes = @ \ {tx}]
             unrecorded ==
                 IF chargeback /\ "record" \notin skipped
                 THEN [undisputed EXCEPT !.transactions = MapRemove(@, tx)]
                 ELSE undisputed
             closed ==
                 IF chargeback /\ "lock" \notin skipped
                 THEN [unrecorded EXCEPT !.locked = TRUE]
                 ELSE unrecorded
         IN  IF ~new_held.ok
             THEN Outcome(CurrencyError(new_held.error), self)
             ELSE IF ~new_available.ok
             THEN Outcome(CurrencyError(new_available.error), self)
             ELSE IF tx \notin self.active_disputes
             THEN Outcome(DisputeDoesNotExist(tx), self)
             ELSE Outcome(Ok,
                      [closed EXCEPT !.held = new_held.value,
                                     !.available = new_available.value])

\* resolve_dispute testing the dispute with contains() instead of remove().
resolve_dispute_KeepDispute(self, tx, resolution) ==
    ResolveWith(self, tx, resolution, {"Resolve"}, {"dispute"})

\* resolve_dispute whose chargeback does not lock the account.
resolve_dispute_NoLock(self, tx, resolution) ==
    ResolveWith(self, tx, resolution, {"Resolve"}, {"lock"})

\* resolve_dispute that credits available on a chargeback too.
resolve_dispute_ChargebackCredits(self, tx, resolution) ==
    ResolveWith(self, tx, resolution, {"Resolve", "Chargeback"}, {})

\* resolve_dispute that releases the hold without crediting available.
resolve_dispute_NoCredit(self, tx, resolution) ==
    ResolveWith(self, tx, resolution, {}, {})

\* resolve_dispute that tests the dispute set before it looks the
\* transaction up.
resolve_dispute_DisputeCheckedFirst(self, tx, resolution) ==
    IF tx \notin self.active_disputes
    THEN Outcome(DisputeDoesNotExist(tx), self)
    ELSE ResolveWith(self, tx, resolution, {"Resolve"}, {})

\* resolve_dispute without the test of the dispute set: a transaction that
\* is not disputed is resolved or charged back.
resolve_dispute_Undisputed(self, tx, resolution) ==
    LET disputed == [self EXCEPT !.active_disputes = @ \cup {tx}]
        out == ResolveWith(disputed, tx, resolution, {"Resolve"}, {})
    IN  IF out.result = Ok THEN out ELSE Outcome(out.result, self)

\* resolve_dispute whose resolve reopens a locked account.
resolve_dispute_ResolveUnlocks(self, tx, resolution) ==
    LET out == ResolveWith(self, tx, resolution, {"Resolve"}, {})
    IN  IF out.result = Ok /\ resolution = "Resolve"
        THEN Outcome(Ok, [out.account EXCEPT !.locked = FALSE])
        ELSE out

\* resolve_dispute whose chargeback leaves the funds held.
resolve_dispute_KeepHeld(self, tx, resolution) ==
    LET out == ResolveWith(self, tx, resolution, {"Resolve"}, {})
    IN  IF out.result = Ok /\ resolution = "Chargeback"
        THEN Outcome(Ok, [out.account EXCEPT !.held = self.held])
        ELSE out

\* resolve_dispute whose chargeback keeps the record of the transaction.
resolve_dispute_KeepRecord(self, tx, resolution) ==
    ResolveWith(self, tx, resolution, {"Resolve"}, {"record"})

\* resolve_dispute that removes the record on a resolve as on a chargeback.
resolve_dispute_RemovesRecord(self, tx, resolution) ==
    LET out == ResolveWith(self, tx, resolution, {"Resolve"}, {})
    IN  IF out.result = Ok
        THEN Outcome(Ok, [out.account EXCEPT
                              !.transactions = MapRemove(@, tx)])
        ELSE out

\* ClientAccount::resolve_dispute, resolution \in {"Resolve", "Chargeback"}
resolve_dispute(self, tx, resolution) ==
    IF tx \notin DOMAIN self.transactions
    THEN Outcome(TransactionDoesNotExist(tx), self)
    ELSE LET amount == self.transactions[tx]
             new_held == Sub(self.held, amount)
             new_available ==
                 IF resolution = "Resolve"
                 THEN Add(self.available, amount)
                 ELSE CurrencyOk(self.available)
         IN  IF ~new_held.ok
             THEN Outcome(CurrencyError(new_held.error), self)
             ELSE IF ~new_available.ok
             THEN Outcome(CurrencyError(new_available.error), self)
             ELSE IF tx \notin self.active_disputes
             THEN Outcome(DisputeDoesNotExist(tx), self)
             ELSE LET undisputed ==
                          [self EXCEPT !.active_disputes = @ \ {tx}]
                      closed ==
                          IF resolution = "Chargeback"
                          THEN [undisputed EXCEPT
                                    !.transactions = MapRemove(@, tx),
                                    !.locked = TRUE]
                          ELSE undisputed
                  IN  Outcome(Ok,
                          [closed EXCEPT !.held = new_held.value,
                                         !.available = new_available.value])

\* deposit checking the lock only after the balance.
deposit_LockLast(self, tx, amount) ==
    LET new_available == Add(self.available, amount)
    IN  IF ~new_available.ok
        THEN Outcome(CurrencyError(new_available.error), self)
        ELSE IF is_negative(new_available.value)
        THEN Outcome(NotEnoughFunds, self)
        ELSE IF self.locked
        THEN Outcome(AccountIsLocked, self)
        ELSE IF tx \in DOMAIN self.transactions
        THEN Outcome(TransactionAlreadyExists(tx), self)
        ELSE Outcome(Ok,
                 [self EXCEPT !.transactions = MapInsert(@, tx, amount),
                              !.available = new_available.value])

\* deposit looking the transaction id up before computing the balance.
deposit_DuplicateFirst(self, tx, amount) ==
    IF self.locked
    THEN Outcome(AccountIsLocked, self)
    ELSE IF tx \in DOMAIN self.transactions
    THEN Outcome(TransactionAlreadyExists(tx), self)
    ELSE LET new_available == Add(self.available, amount)
         IN  IF ~new_available.ok
             THEN Outcome(CurrencyError(new_available.error), self)
             ELSE IF is_negative(new_available.value)
             THEN Outcome(NotEnoughFunds, self)
             ELSE Outcome(Ok,
                      [self EXCEPT !.transactions = MapInsert(@, tx, amount),
                                   !.available = new_available.value])

\* deposit without the floor on the new available balance.
deposit_NoFloor(self, tx, amount) ==
    IF self.locked
    THEN Outcome(AccountIsLocked, self)
    ELSE LET new_available == Add(self.available, amount)
         IN  IF ~new_available.ok
             THEN Outcome(CurrencyError(new_available.error), self)
             ELSE IF tx \in DOMAIN self.transactions
             THEN Outcome(TransactionAlreadyExists(tx), self)
             ELSE Outcome(Ok,
                      [self EXCEPT !.transactions = MapInsert(@, tx, amount),
                                   !.available = new_available.value])

\* deposit with insert() in place of entry(): a recorded transaction id is
\* recorded again and its amount overwritten.
deposit_Overwrites(self, tx, amount) ==
    IF self.locked
    THEN Outcome(AccountIsLocked, self)
    ELSE LET new_available == Add(self.available, amount)
         IN  IF ~new_available.ok
             THEN Outcome(CurrencyError(new_available.error), self)
             ELSE IF is_negative(new_available.value)
             THEN Outcome(NotEnoughFunds, self)
             ELSE Outcome(Ok,
                      [self EXCEPT !.transactions = MapInsert(@, tx, amount),
                                   !.available = new_available.value])

\* ClientAccount::deposit
deposit(self, tx, amount) ==
    IF self.locked
    THEN Outcome(AccountIsLocked, self)
    ELSE LET new_available == Add(self.available, amount)
         IN  IF ~new_available.ok
             THEN Outcome(CurrencyError(new_available.error), self)
             ELSE IF is_negative(new_available.value)
             THEN Outcome(NotEnoughFunds, self)
             ELSE IF tx \in DOMAIN self.transactions
             THEN Outcome(TransactionAlreadyExists(tx), self)
             ELSE Outcome(Ok,
                      [self EXCEPT !.transactions = MapInsert(@, tx, amount),
                                   !.available = new_available.value])

\* withdraw that takes the amount from available and records it unsigned.
withdraw_RecordsAmount(self, tx, amount) ==
    LET out == deposit(self, tx, Neg(amount))
    IN  IF out.result = Ok
        THEN Outcome(Ok, [out.account EXCEPT !.transactions[tx] = amount])
        ELSE out

\* ClientAccount::withdraw
withdraw(self, tx, amount) == deposit(self, tx, Neg(amount))

(***************************************************************************)
(* Transaction and TransactionProcessor                                    *)
(***************************************************************************)
AmountTypes == {"Deposit", "Withdrawal"}
ReferenceTypes == {"Dispute", "Resolve", "Chargeback"}

\* Transaction::new; the three reference types carry no amount.
Transaction(client, tx, type, amount) ==
    [client |-> client, tx |-> tx, type |-> type, amount |-> amount]

\* The BTreeMap entry() of transact: the account, created when absent.
Entry(cs, client) ==
    IF client \in DOMAIN cs THEN cs[client] ELSE NewAccount

\* The match of transact on the transaction type.
Dispatch(self, transaction) ==
    CASE transaction.type = "Deposit" ->
             deposit(self, transaction.tx, transaction.amount)
      [] transaction.type = "Withdrawal" ->
             withdraw(self, transaction.tx, transaction.amount)
      [] transaction.type = "Dispute" ->
             create_dispute(self, transaction.tx)
      [] transaction.type = "Resolve" ->
             resolve_dispute(self, transaction.tx, "Resolve")
      [] transaction.type = "Chargeback" ->
             resolve_dispute(self, transaction.tx, "Chargeback")

\* transact that looks the account up with get_mut() and creates it only
\* when the transaction succeeds.
transact_NoAccountOnError(cs, transaction) ==
    LET out == Dispatch(Entry(cs, transaction.client), transaction)
    IN  [result |-> out.result,
         clients |-> IF out.result = Ok
                     THEN MapInsert(cs, transaction.client, out.account)
                     ELSE cs]

\* transact with transaction ids shared by all clients: a deposit or
\* withdrawal is refused when another client recorded its id.
transact_SharedIds(cs, transaction) ==
    LET self == Entry(cs, transaction.client)
        out == Dispatch(self, transaction)
        taken == \E other \in DOMAIN cs \ {transaction.client} :
                     transaction.tx \in DOMAIN cs[other].transactions
    IN  IF transaction.type \in AmountTypes /\ taken
        THEN [result |-> TransactionAlreadyExists(transaction.tx),
              clients |-> MapInsert(cs, transaction.client, self)]
        ELSE [result |-> out.result,
              clients |-> MapInsert(cs, transaction.client, out.account)]

\* TransactionProcessor::transact: the returned result and the new map.
transact(cs, transaction) ==
    LET out == Dispatch(Entry(cs, transaction.client), transaction)
    IN  [result |-> out.result,
         clients |-> MapInsert(cs, transaction.client, out.account)]

\* One row of the report.
ReportEntry(client_id, client_account) ==
    [client |-> client_id,
     available |-> client_account.available,
     held |-> client_account.held,
     total |-> total(client_account).value,
     locked |-> client_account.locked]

\* generate_report over a map walked in descending key order.
RECURSIVE ReportFrom_Descending(_, _)
ReportFrom_Descending(cs, ids) ==
    IF ids = {} THEN <<>>
    ELSE LET client_id == CHOOSE i \in ids : \A j \in ids : i >= j
             rest == ReportFrom_Descending(cs, ids \ {client_id})
         IN  IF total(cs[client_id]).ok
             THEN <<ReportEntry(client_id, cs[client_id])>> \o rest
             ELSE rest

\* generate_report with map() in place of filter_map(): the accounts whose
\* total overflows get a row too.
RECURSIVE ReportFrom_Unfiltered(_, _)
ReportFrom_Unfiltered(cs, ids) ==
    IF ids = {} THEN <<>>
    ELSE LET client_id == CHOOSE i \in ids : \A j \in ids : i <= j
         IN  <<ReportEntry(client_id, cs[client_id])>>
                 \o ReportFrom_Unfiltered(cs, ids \ {client_id})

\* TransactionProcessor::generate_report: the BTreeMap is walked in key
\* order and the accounts whose total overflows are filtered out.
RECURSIVE ReportFrom(_, _)
ReportFrom(cs, ids) ==
    IF ids = {} THEN <<>>
    ELSE LET client_id == CHOOSE i \in ids : \A j \in ids : i <= j
             rest == ReportFrom(cs, ids \ {client_id})
         IN  IF total(cs[client_id]).ok
             THEN <<ReportEntry(client_id, cs[client_id])>> \o rest
             ELSE rest

generate_report(cs) == ReportFrom(cs, DOMAIN cs)

(***************************************************************************)
(* State                                                                   *)
(***************************************************************************)
VARIABLES
    clients,      \* TransactionProcessor.clients
    last,         \* the transaction applied by the latest call of transact
    result,       \* what that call returned
    prev,         \* clients as it was when that call was made
    before,       \* the call before that one: its transaction and the
                  \* clients it was made on when it was a successful
                  \* dispute, deposit or resolve, FailedBefore when it failed
    charged_back, \* the <<client, tx>> pairs charged back so far
    open_disputes,\* the <<client, tx>> pairs disputed with success and
                  \* neither resolved nor charged back with success since
    named,        \* the client ids named by the transactions applied so far
    report,       \* the report generated since the latest call of transact
    calc          \* the operation of CurrencyAmount applied last, with its
                  \* operands and what it returned

vars ==
    <<clients, last, result, prev, before, charged_back, open_disputes, named,
      report, calc>>

NoTransaction == Transaction(0, 0, "None", ZERO)
NoResult == [kind |-> "None", tx |-> 0, err |-> ""]
NoBefore == [transaction |-> NoTransaction, clients |-> EmptyMap]
FailedBefore ==
    [transaction |-> Transaction(0, 0, "Failed", ZERO), clients |-> EmptyMap]
NoReport == [generated |-> FALSE, rows |-> <<>>]

\* No operation of CurrencyAmount has been applied.
NoCalc ==
    [op |-> "None", lhs |-> ZERO, rhs |-> ZERO, out |-> CurrencyOk(ZERO),
     decimal |-> Dec(0, 0), text |-> <<>>, parsed |-> InvalidNumericValue,
     shown |-> <<>>, flipped |-> CurrencyOk(ZERO)]

\* TransactionProcessor::new
InitProcessor ==
    /\ clients = EmptyMap
    /\ last = NoTransaction
    /\ result = NoResult
    /\ prev = EmptyMap
    /\ before = NoBefore
    /\ charged_back = {}
    /\ open_disputes = {}
    /\ named = {}
    /\ report = NoReport

Init ==
    /\ InitProcessor
    /\ calc = NoCalc

\* The call transact(transaction) returned out and is recorded.
Returned(transaction, out) ==
    /\ clients' = out.clients
    /\ result' = out.result
    /\ last' = transaction
    /\ prev' = clients
    /\ before' = IF result = Ok
                    /\ last.type \in {"Dispute", "Deposit", "Resolve"}
                 THEN [transaction |-> last, clients |-> prev]
                 ELSE IF result \notin {Ok, NoResult}
                 THEN FailedBefore
                 ELSE NoBefore
    /\ charged_back' =
           IF out.result = Ok /\ transaction.type = "Chargeback"
           THEN charged_back \cup {<<transaction.client, transaction.tx>>}
           ELSE charged_back
    /\ open_disputes' =
           IF out.result # Ok
           THEN open_disputes
           ELSE IF transaction.type = "Dispute"
           THEN open_disputes \cup {<<transaction.client, transaction.tx>>}
           ELSE IF transaction.type \in {"Resolve", "Chargeback"}
           THEN open_disputes \ {<<transaction.client, transaction.tx>>}
           ELSE open_disputes
    /\ named' = named \cup {transaction.client}
    /\ report' = NoReport
    /\ UNCHANGED calc

\* process_files returning the error of transact with `?`: no transaction is
\* applied after a failed one.
Transact_StopsOnError(transaction) ==
    /\ result \in {Ok, NoResult}
    /\ Returned(transaction, transact(clients, transaction))

\* process_files: one transaction of the stream is handed to transact.
Transact(transaction) ==
    Returned(transaction, transact(clients, transaction))

\* The transactions the reader can hand over, by type: a deposit or a
\* withdrawal carries an amount, the three others only name a transaction.
Deposit(client, tx, amount) ==
    Transact(Transaction(client, tx, "Deposit", amount))

Withdrawal(client, tx, amount) ==
    Transact(Transaction(client, tx, "Withdrawal", amount))

Dispute(client, tx) == Transact(Transaction(client, tx, "Dispute", ZERO))

Resolve(client, tx) == Transact(Transaction(client, tx, "Resolve", ZERO))

Chargeback(client, tx) == Transact(Transaction(client, tx, "Chargeback", ZERO))

\* process_files, after the loop, and generate_report_as_vec, at any time:
\* the report is generated; generate_report borrows the processor immutably.
GenerateReport ==
    /\ report' = [generated |-> TRUE, rows |-> generate_report(clients)]
    /\ UNCHANGED <<clients, last, result, prev, before, charged_back,
                   open_disputes, named, calc>>

\* One transaction of a stream that names the clients cids and the
\* transactions txids and carries the amounts amounts.
Stream(cids, txids, amounts) ==
    \E client \in cids, tx \in txids :
        \/ \E amount \in amounts : Deposit(client, tx, amount)
        \/ \E amount \in amounts : Withdrawal(client, tx, amount)
        \/ Dispute(client, tx)
        \/ Resolve(client, tx)
        \/ Chargeback(client, tx)

Next == Stream(ClientId, TransactionId, CurrencyAmount)

Spec == Init /\ [][Next]_vars

\* The stream of two clients: every amount is the largest amount, so that the
\* total of an account can overflow, and the report is generated at any point.
TwoClients == {1, 2}

EdgeAmounts == {MaxMagnitude}

NextClients ==
    \/ Stream(TwoClients, TransactionId, EdgeAmounts)
    \/ GenerateReport

SpecClients == Init /\ [][NextClients]_vars

\* The stream of one client over four transaction ids, with unit amounts.
FreshIds == {1, 2, 3, 4}

UnitAmounts == {1}

NextFreshIds == Stream(ClientId, FreshIds, UnitAmounts)

SpecFreshIds == Init /\ [][NextFreshIds]_vars

(***************************************************************************)
(* The operations of CurrencyAmount on their own: two operands that are    *)
(* added in both orders, an amount that is formatted and parsed back, and  *)
(* a text that is parsed and formatted back. The processor stays as it was *)
(* constructed.                                                            *)
(***************************************************************************)
\* The characters of the texts that are parsed: the sign, the point, digits
\* and a character that is neither.
TextChars == {"-", ".", "0", "1", "a"}

Texts == UNION {[1..n -> TextChars] : n \in 0..MaxLen}

ShownAmounts == {Dec(m, s) : m \in (0 - MaxShown)..MaxShown, s \in 0..MaxScale}

Operands(a, b) == [NoCalc EXCEPT !.op = "Operands", !.lhs = a, !.rhs = b]

Amount(a) == [NoCalc EXCEPT !.op = "Amount", !.decimal = a]

Text(t) == [NoCalc EXCEPT !.op = "Text", !.text = t]

InitNumeric ==
    /\ InitProcessor
    /\ \/ \E a, b \in CurrencyAmount : calc = Operands(a, b)
       \/ \E a \in ShownAmounts : calc = Amount(a)
       \/ \E t \in Texts : calc = Text(t)

Processor ==
    <<clients, last, result, prev, before, charged_back, open_disputes,
      named, report>>

\* lhs + rhs and rhs + lhs
ApplyAdd ==
    /\ calc.op = "Operands"
    /\ calc' = [calc EXCEPT !.op = "Add",
                            !.out = Add(calc.lhs, calc.rhs),
                            !.flipped = Add(calc.rhs, calc.lhs)]
    /\ UNCHANGED Processor

\* decimal.to_string()
Format ==
    /\ calc.op = "Amount"
    /\ calc' = [calc EXCEPT !.op = "Format", !.text = to_string(calc.decimal)]
    /\ UNCHANGED Processor

\* CurrencyAmount::from_str of the text that was written
ParseFormatted ==
    /\ calc.op = "Format"
    /\ calc' = [calc EXCEPT !.op = "RoundTrip", !.parsed = from_str(calc.text)]
    /\ UNCHANGED Processor

\* CurrencyAmount::from_str(text)
Parse ==
    /\ calc.op = "Text"
    /\ calc' = [calc EXCEPT !.op = "Parse", !.parsed = from_str(calc.text)]
    /\ UNCHANGED Processor

\* to_string() of the amount that was parsed
FormatParsed ==
    /\ calc.op = "Parse"
    /\ calc.parsed.ok
    /\ calc' = [calc EXCEPT !.op = "Reformat",
                            !.shown = to_string(calc.parsed.value)]
    /\ UNCHANGED Processor

NextNumeric ==
    \/ ApplyAdd
    \/ Format
    \/ ParseFormatted
    \/ Parse
    \/ FormatParsed

SpecNumeric == InitNumeric /\ [][NextNumeric]_vars

(***************************************************************************)
(* The latest call of transact, as the properties below read it.           *)
(***************************************************************************)
Applied == last.type # "None"

\* The account the method was called on (created by transact when absent).
Pre == Entry(prev, last.client)

\* The same account when the method returned.
Post == clients[last.client]

\* The exact (unbounded) new available balance of a deposit or withdrawal.
ExactNewAvailable ==
    IF last.type = "Deposit"
    THEN Pre.available + last.amount
    ELSE Pre.available - last.amount

(***************************************************************************)
(* C1. Atomicity: whenever deposit, withdraw, create_dispute or            *)
(* resolve_dispute (Resolve or Chargeback) returns an error of any kind,   *)
(* the account's available, held, locked, records and active_disputes are  *)
(* exactly what they were before the call.                                 *)
(***************************************************************************)
C1_Atomicity ==
    (Applied /\ result # Ok) =>
        /\ Post.available = Pre.available
        /\ Post.held = Pre.held
        /\ Post.locked = Pre.locked
        /\ Post.transactions = Pre.transactions
        /\ Post.active_disputes = Pre.active_disputes

\* A dispute of a recorded, undisputed transaction failed on the arithmetic
\* and left an account with funds on hold as it was.
C1_Witness ==
    /\ last.type = "Dispute"
    /\ result = CurrencyError("OutOfBounds")
    /\ last.tx \in DOMAIN Pre.transactions
    /\ last.tx \notin Pre.active_disputes
    /\ Pre.held # ZERO
    /\ Post = Pre

(***************************************************************************)
(* C2. In every reachable state of every account, each transaction id in   *)
(* active_disputes is also a key of records.                               *)
(***************************************************************************)
C2_DisputesAreRecorded ==
    \A c \in DOMAIN clients :
        clients[c].active_disputes \subseteq DOMAIN clients[c].transactions

\* A chargeback has removed one record while another stays disputed.
C2_Witness ==
    /\ last.type = "Chargeback"
    /\ result = Ok
    /\ Post.active_disputes # {}
    /\ last.tx \notin DOMAIN Post.transactions

(***************************************************************************)
(* C3. Once an account is locked, every subsequent deposit and withdraw on *)
(* it fails with AccountIsLocked, whatever the tx id and amount, and       *)
(* changes nothing; a locked account stays locked for the rest of the run. *)
(***************************************************************************)
LockedRejects ==
    (Applied /\ last.type \in AmountTypes /\ Pre.locked) =>
        (result = AccountIsLocked /\ Post = Pre)

StaysLocked ==
    \A c \in DOMAIN clients : clients[c].locked => clients'[c].locked

C3_LockedForGood == []LockedRejects /\ [][StaysLocked]_vars

\* A withdrawal that reuses a recorded id and that the balance could not
\* cover was refused for the lock, not for either of those.
C3_Witness ==
    /\ last.type = "Withdrawal"
    /\ Pre.locked
    /\ last.tx \in DOMAIN Pre.transactions
    /\ ExactNewAvailable < 0
    /\ result = AccountIsLocked
    /\ Post = Pre

(***************************************************************************)
(* C4. After a successful chargeback of tx on a client's account, every    *)
(* later dispute, resolve or chargeback of that tx on that account fails   *)
(* with TransactionDoesNotExist(tx): the record is gone and, the account   *)
(* being locked, tx is never recorded again.                               *)
(***************************************************************************)
ChargedBackIsGone ==
    \A p \in charged_back :
        /\ p[2] \notin DOMAIN clients[p[1]].transactions
        /\ clients[p[1]].locked

ChargedBackRejects ==
    (<<last'.client, last'.tx>> \in charged_back /\ last'.type \in ReferenceTypes)
        => result' = TransactionDoesNotExist(last'.tx)

C4_NoDisputeAfterChargeback ==
    []ChargedBackIsGone /\ [][ChargedBackRejects]_vars

\* A chargeback of a transaction that had been charged back earlier failed,
\* on an account that still has a dispute open.
C4_Witness ==
    /\ last.type = "Chargeback"
    /\ <<last.client, last.tx>> \in charged_back
    /\ result = TransactionDoesNotExist(last.tx)
    /\ Pre.active_disputes # {}

\* The rows of client c in the report of cs.
ReportRows(cs, c) ==
    {i \in 1..Len(generate_report(cs)) : generate_report(cs)[i].client = c}

\* The report is what it was before the latest call; the row of an account
\* that the call created is the row of a new account.
SameReportRow ==
    /\ last.client \in DOMAIN prev =>
           generate_report(clients) = generate_report(prev)
    /\ last.client \notin DOMAIN prev =>
           \A i \in ReportRows(clients, last.client) :
               generate_report(clients)[i] = ReportEntry(last.client, NewAccount)

(***************************************************************************)
(* C5. As claimed: a deposit or withdraw on an unlocked account succeeds   *)
(* only if the resulting available balance (available + amount, available  *)
(* - amount) is not negative; otherwise it fails with NotEnoughFunds and   *)
(* the account and its report row are unchanged.                           *)
(***************************************************************************)
C5_AsClaimed ==
    (Applied /\ last.type \in AmountTypes /\ ~Pre.locked) =>
        /\ result = Ok =>
               /\ ExactNewAvailable >= 0
               /\ Post.available = ExactNewAvailable
        /\ ExactNewAvailable < 0 =>
               /\ result = NotEnoughFunds
               /\ Post = Pre
               /\ SameReportRow

(***************************************************************************)
(* The balance floor the code keeps: a deposit or withdraw on an unlocked   *)
(* account succeeds only if the resulting available balance is not         *)
(* negative; when it would be negative the call fails, with NotEnoughFunds *)
(* if that balance is representable and with CurrencyError(OutOfBounds) if *)
(* it is not, and the account and its report row are unchanged. Hence      *)
(* available >= 0 right after every successful deposit or withdraw.        *)
(***************************************************************************)
C5_BalanceFloor ==
    (Applied /\ last.type \in AmountTypes /\ ~Pre.locked) =>
        /\ result = Ok =>
               /\ ExactNewAvailable >= 0
               /\ Post.available = ExactNewAvailable
        /\ ExactNewAvailable < 0 =>
               /\ result = IF InRange(ExactNewAvailable)
                           THEN NotEnoughFunds
                           ELSE CurrencyError("OutOfBounds")
               /\ Post = Pre
               /\ SameReportRow

\* A withdrawal from an account holding funds was refused for lack of funds.
C5_Witness ==
    /\ last.type = "Withdrawal"
    /\ ~Pre.locked
    /\ Pre.available > 0
    /\ ExactNewAvailable < 0
    /\ result = NotEnoughFunds
    /\ Post = Pre

(***************************************************************************)
(* C6. As claimed: on an unlocked account, deposit(tx, amount) or          *)
(* withdraw(tx, amount) with a tx id that is already in records fails with *)
(* TransactionAlreadyExists(tx) for every amount.                          *)
(***************************************************************************)
ReusedId ==
    /\ Applied
    /\ last.type \in AmountTypes
    /\ ~Pre.locked
    /\ last.tx \in DOMAIN Pre.transactions

C6_AsClaimed == ReusedId => result = TransactionAlreadyExists(last.tx)

(***************************************************************************)
(* C6, amended. On an unlocked account, deposit(tx, amount) or             *)
(* withdraw(tx, amount) with a tx id that is already in records fails for  *)
(* every amount and changes nothing; the duplicate-id check is made after  *)
(* the new balance is computed and after the NotEnoughFunds check, so the  *)
(* error is CurrencyError(OutOfBounds) when the new balance is not         *)
(* representable, NotEnoughFunds when it is negative, and                  *)
(* TransactionAlreadyExists(tx) otherwise.                                 *)
(***************************************************************************)
C6_DuplicateCheckedLast ==
    ReusedId =>
        /\ Post = Pre
        /\ result =
               IF ~InRange(ExactNewAvailable)
               THEN CurrencyError("OutOfBounds")
               ELSE IF ExactNewAvailable < 0
               THEN NotEnoughFunds
               ELSE TransactionAlreadyExists(last.tx)

\* The case of test_deposit_withdraw: a withdrawal that reuses the id of a
\* recorded deposit and exceeds the balance fails with NotEnoughFunds.
C6_Witness ==
    /\ ReusedId
    /\ last.type = "Withdrawal"
    /\ last.amount > Pre.available
    /\ Pre.available > 0
    /\ result = NotEnoughFunds
    /\ Post = Pre

(***************************************************************************)
(* C7. A successful create_dispute(tx) sets held' = held + records[tx] and *)
(* available' = available - records[tx], adds tx to active_disputes, and   *)
(* leaves records, locked and the sum available + held unchanged.          *)
(***************************************************************************)
C7_DisputeMovesFunds ==
    (Applied /\ last.type = "Dispute" /\ result = Ok) =>
        /\ last.tx \in DOMAIN Pre.transactions
        /\ Post.held = Pre.held + Pre.transactions[last.tx]
        /\ Post.available = Pre.available - Pre.transactions[last.tx]
        /\ last.tx \notin Pre.active_disputes
        /\ Post.active_disputes = Pre.active_disputes \cup {last.tx}
        /\ Post.transactions = Pre.transactions
        /\ Post.locked = Pre.locked
        /\ Post.available + Post.held = Pre.available + Pre.held

\* A deposit was disputed while another dispute was open.
C7_Witness ==
    /\ last.type = "Dispute"
    /\ result = Ok
    /\ Pre.transactions[last.tx] > 0
    /\ Pre.active_disputes # {}
    /\ Post.held > Pre.held

(***************************************************************************)
(* C8. Round trip dispute/resolve: a successful dispute of tx immediately  *)
(* followed by a Resolve of tx always succeeds and restores available,     *)
(* held, records, active_disputes and locked to exactly their values       *)
(* before the dispute.                                                     *)
(***************************************************************************)
ResolvesLatestDispute ==
    /\ before.transaction.type = "Dispute"
    /\ last.type = "Resolve"
    /\ last.client = before.transaction.client
    /\ last.tx = before.transaction.tx

C8_DisputeResolveRoundTrip ==
    ResolvesLatestDispute =>
        /\ result = Ok
        /\ Post = Entry(before.clients, last.client)

\* The round trip was made on an account with another dispute open and a
\* non-zero amount, funds having moved in between.
C8_Witness ==
    /\ ResolvesLatestDispute
    /\ result = Ok
    /\ Pre.transactions[last.tx] # ZERO
    /\ Pre.active_disputes # {last.tx}
    /\ Post # Pre

(***************************************************************************)
(* C9. A successful Chargeback of tx sets held' = held - records[tx],      *)
(* leaves available unchanged, removes tx from both active_disputes and    *)
(* records, and sets locked = true; no other record or dispute is touched. *)
(***************************************************************************)
C9_Chargeback ==
    (Applied /\ last.type = "Chargeback" /\ result = Ok) =>
        /\ last.tx \in Pre.active_disputes
        /\ Post.held = Pre.held - Pre.transactions[last.tx]
        /\ Post.available = Pre.available
        /\ Post.active_disputes = Pre.active_disputes \ {last.tx}
        /\ DOMAIN Post.transactions = DOMAIN Pre.transactions \ {last.tx}
        /\ \A t \in DOMAIN Post.transactions :
               Post.transactions[t] = Pre.transactions[t]
        /\ Post.locked

\* A chargeback of a non-zero amount on an unlocked account that has another
\* record and a non-zero available balance.
C9_Witness ==
    /\ last.type = "Chargeback"
    /\ result = Ok
    /\ ~Pre.locked
    /\ Pre.transactions[last.tx] # ZERO
    /\ Pre.available # ZERO
    /\ DOMAIN Post.transactions # {}

(***************************************************************************)
(* C10. available and held never become negative as a direct result of a   *)
(* dispute-related transition: from a state with available >= 0 and        *)
(* held >= 0, a successful dispute, resolve or chargeback produces a state *)
(* that still has available >= 0 and held >= 0.                            *)
(***************************************************************************)
C10_DisputesKeepBalancesNonNegative ==
    (/\ Applied
     /\ last.type \in ReferenceTypes
     /\ result = Ok
     /\ Pre.available >= 0
     /\ Pre.held >= 0)
        => (Post.available >= 0 /\ Post.held >= 0)

(***************************************************************************)
(* C11. A dispute, resolve or chargeback naming a tx id that is not in the *)
(* client's records always fails with TransactionDoesNotExist(tx) and      *)
(* leaves every field of the account unchanged; no arithmetic and no test  *)
(* of the dispute set comes before this check.                             *)
(***************************************************************************)
C11_UnrecordedReference ==
    (/\ Applied
     /\ last.type \in ReferenceTypes
     /\ last.tx \notin DOMAIN Pre.transactions)
        => (result = TransactionDoesNotExist(last.tx) /\ Post = Pre)

\* A chargeback named an unrecorded transaction on an account that holds
\* funds under an open dispute.
C11_Witness ==
    /\ last.type = "Chargeback"
    /\ last.tx \notin DOMAIN Pre.transactions
    /\ Pre.active_disputes # {}
    /\ Pre.held # ZERO
    /\ result = TransactionDoesNotExist(last.tx)

(***************************************************************************)
(* C12. A Resolve or Chargeback of tx succeeds only if tx is in            *)
(* active_disputes at that moment, and active_disputes holds exactly the   *)
(* transactions disputed with success and neither resolved nor charged     *)
(* back with success since; on a recorded but undisputed tx it never       *)
(* succeeds, changes nothing, and fails with DisputeDoesNotExist(tx)       *)
(* unless the arithmetic overflows.                                        *)
(***************************************************************************)
OpenDisputesOf(client) ==
    {pair[2] : pair \in {p \in open_disputes : p[1] = client}}

\* The arithmetic of resolve_dispute on the account and transaction of the
\* latest call is in range.
ResolveArithmeticOk ==
    LET amount == Pre.transactions[last.tx]
    IN  /\ Sub(Pre.held, amount).ok
        /\ last.type = "Resolve" => Add(Pre.available, amount).ok

C12_ResolveNeedsDispute ==
    /\ \A client \in DOMAIN clients :
           clients[client].active_disputes = OpenDisputesOf(client)
    /\ \A pair \in open_disputes : pair[1] \in DOMAIN clients
    /\ (Applied /\ last.type \in {"Resolve", "Chargeback"}) =>
           /\ result = Ok => last.tx \in Pre.active_disputes
           /\ (/\ last.tx \in DOMAIN Pre.transactions
               /\ last.tx \notin Pre.active_disputes) =>
                   /\ result # Ok
                   /\ Post = Pre
                   /\ ResolveArithmeticOk =>
                          result = DisputeDoesNotExist(last.tx)
                   /\ ~ResolveArithmeticOk => result.kind = "CurrencyError"

\* A resolve named a recorded transaction of non-zero amount that is not
\* disputed, while the other transaction of the account is.
C12_Witness ==
    /\ last.type = "Resolve"
    /\ last.tx \in DOMAIN Pre.transactions
    /\ last.tx \notin Pre.active_disputes
    /\ Pre.transactions[last.tx] # ZERO
    /\ Pre.active_disputes # {}
    /\ result = DisputeDoesNotExist(last.tx)

(***************************************************************************)
(* C13. create_dispute(tx) on a tx already in active_disputes never        *)
(* succeeds and never moves funds a second time: it fails with             *)
(* DisputeAlreadyExists(tx) when the arithmetic succeeds and with          *)
(* CurrencyError when held + amount or available - amount overflows, and   *)
(* leaves held, available and active_disputes unchanged.                   *)
(***************************************************************************)
C13_DisputeOnlyOnce ==
    (Applied /\ last.type = "Dispute" /\ last.tx \in Pre.active_disputes) =>
        /\ last.tx \in DOMAIN Pre.transactions
        /\ result # Ok
        /\ Post = Pre
        /\ LET amount == Pre.transactions[last.tx]
               new_held == Add(Pre.held, amount)
               new_available == Sub(Pre.available, amount)
           IN  result = IF ~new_held.ok
                        THEN CurrencyError(new_held.error)
                        ELSE IF ~new_available.ok
                        THEN CurrencyError(new_available.error)
                        ELSE DisputeAlreadyExists(last.tx)

\* A disputed transaction of non-zero amount was disputed again, the
\* arithmetic being in range.
C13_Witness ==
    /\ last.type = "Dispute"
    /\ last.tx \in Pre.active_disputes
    /\ Pre.transactions[last.tx] # ZERO
    /\ result = DisputeAlreadyExists(last.tx)
    /\ Post.held = Pre.held

(***************************************************************************)
(* C14. The locked flag has no influence on dispute, resolve or            *)
(* chargeback: on a locked account each of these succeeds or fails, and    *)
(* changes held, available, records and active_disputes, exactly as it     *)
(* does on the same account unlocked.                                      *)
(***************************************************************************)
SameButLocked(a, b) ==
    /\ a.result = b.result
    /\ a.account.available = b.account.available
    /\ a.account.held = b.account.held
    /\ a.account.transactions = b.account.transactions
    /\ a.account.active_disputes = b.account.active_disputes

C14_LockIgnoredByDisputes ==
    \A client \in DOMAIN clients, tx \in FreshIds, type \in ReferenceTypes :
        LET transaction == Transaction(client, tx, type, ZERO)
            locked == [clients[client] EXCEPT !.locked = TRUE]
            unlocked == [clients[client] EXCEPT !.locked = FALSE]
        IN  SameButLocked(Dispatch(locked, transaction),
                          Dispatch(unlocked, transaction))

\* A recorded transaction was disputed with success on a locked account.
C14_Witness ==
    /\ last.type = "Dispute"
    /\ Pre.locked
    /\ result = Ok
    /\ Post.held # Pre.held

(***************************************************************************)
(* C15. An account is created (available = 0, held = 0, unlocked, no       *)
(* records, no disputes) on the first transaction of any kind that names   *)
(* its client id, even when that transaction fails, and is never deleted:  *)
(* at every point the set of accounts equals the set of client ids named   *)
(* by the transactions applied so far.                                     *)
(***************************************************************************)
AccountsAreTheNamedClients ==
    /\ DOMAIN clients = named
    /\ (Applied /\ last.client \notin DOMAIN prev) =>
           /\ Post = Dispatch(NewAccount, last).account
           /\ result # Ok =>
                  /\ Post.available = ZERO
                  /\ Post.held = ZERO
                  /\ ~Post.locked
                  /\ DOMAIN Post.transactions = {}
                  /\ Post.active_disputes = {}

AccountsStay == DOMAIN clients \subseteq DOMAIN clients'

C15_AccountsCreatedOnFirstUse ==
    []AccountsAreTheNamedClients /\ [][AccountsStay]_vars

\* The first transaction that named a client failed, while the other client
\* had an account with a record.
C15_Witness ==
    /\ Applied
    /\ last.client \notin DOMAIN prev
    /\ result # Ok
    /\ \E other \in DOMAIN prev : DOMAIN prev[other].transactions # {}
    /\ last.client \in DOMAIN clients

(***************************************************************************)
(* C16. Client isolation: applying a transaction for client c leaves the   *)
(* account of every other client unchanged, and transaction ids are scoped *)
(* per client: a dispute, resolve or chargeback by client d of a tx id     *)
(* recorded only for client c fails with TransactionDoesNotExist, and the  *)
(* same tx id may be deposited independently by two clients (the outcome   *)
(* of a call depends on the account of its client alone).                  *)
(***************************************************************************)
C16_ClientIsolation ==
    Applied =>
        /\ \A other \in DOMAIN clients \ {last.client} :
               other \in DOMAIN prev /\ clients[other] = prev[other]
        /\ DOMAIN prev \subseteq DOMAIN clients
        /\ result = Dispatch(Pre, last).result
        /\ Post = Dispatch(Pre, last).account
        /\ (/\ last.type \in ReferenceTypes
            /\ last.tx \notin DOMAIN Pre.transactions) =>
               result = TransactionDoesNotExist(last.tx)

\* A client deposited with success under a tx id that the other client has
\* recorded and disputed.
C16_Witness ==
    /\ last.type = "Deposit"
    /\ result = Ok
    /\ \E other \in DOMAIN prev \ {last.client} :
           /\ last.tx \in prev[other].active_disputes
           /\ clients[other] = prev[other]

(***************************************************************************)
(* C17. The report lists accounts in strictly ascending client id, at most *)
(* one row per account, and every emitted row has available, held and      *)
(* locked equal to the account's current fields and total = available +    *)
(* held.                                                                   *)
(***************************************************************************)
WellFormedReport(rows, cs) ==
    /\ \A i, j \in 1..Len(rows) : i < j => rows[i].client < rows[j].client
    /\ \A i \in 1..Len(rows) :
           /\ rows[i].client \in DOMAIN cs
           /\ rows[i].available = cs[rows[i].client].available
           /\ rows[i].held = cs[rows[i].client].held
           /\ rows[i].locked = cs[rows[i].client].locked
           /\ rows[i].total = rows[i].available + rows[i].held

C17_ReportRows ==
    /\ WellFormedReport(generate_report(clients), clients)
    /\ report.generated => WellFormedReport(report.rows, clients)

\* A report of two rows was generated, one of them for a locked account and
\* one for an account that holds funds.
C17_Witness ==
    /\ report.generated
    /\ Len(report.rows) = 2
    /\ \E i \in 1..2 : report.rows[i].locked
    /\ \E i \in 1..2 : report.rows[i].held # ZERO

(***************************************************************************)
(* C18. An account appears in the report if and only if available + held   *)
(* does not overflow; an account whose total overflows is omitted while    *)
(* all other accounts are still reported, and generating the report        *)
(* changes no account, so two consecutive reports are identical.           *)
(***************************************************************************)
Reported(rows) == {rows[i].client : i \in 1..Len(rows)}

ReportedIffTotal(rows, cs) ==
    Reported(rows) =
        {client \in DOMAIN cs : InRange(cs[client].available + cs[client].held)}

ReportIsComplete ==
    /\ ReportedIffTotal(generate_report(clients), clients)
    /\ report.generated =>
           /\ ReportedIffTotal(report.rows, clients)
           /\ report.rows = generate_report(clients)

ReportReadsOnly ==
    report'.generated =>
        /\ clients' = clients
        /\ report.generated => report' = report

C18_ReportOmitsOverflow == []ReportIsComplete /\ [][ReportReadsOnly]_vars

\* A report was generated while the total of one account overflowed: it has
\* one row, for the other account.
C18_Witness ==
    /\ report.generated
    /\ \E client \in DOMAIN clients : ~total(clients[client]).ok
    /\ Len(report.rows) = 1
    /\ DOMAIN clients = TwoClients

(***************************************************************************)
(* C19. A failing transaction never stops or alters the rest of the        *)
(* stream: every transaction after it is still applied in order, and its   *)
(* outcome and the resulting account fields are the same as if the failed  *)
(* transaction had not been in the stream.                                 *)
(***************************************************************************)
\* The transactions the stream can carry next.
Transactions ==
    {Transaction(client, tx, type, amount) :
         client \in ClientId, tx \in TransactionId,
         type \in AmountTypes, amount \in CurrencyAmount}
    \cup {Transaction(client, tx, type, ZERO) :
              client \in ClientId, tx \in TransactionId,
              type \in ReferenceTypes}

\* The maps with and without give every client the same account, an
\* account that was never touched being the new account.
SameAccounts(with, without) ==
    \A client \in DOMAIN with \cup DOMAIN without :
        Entry(with, client) = Entry(without, client)

\* The stream goes on: a transaction of any type, for any client and any
\* transaction id, can be applied next.
StreamGoesOn ==
    \A client \in ClientId, tx \in TransactionId :
        \A type \in AmountTypes \cup ReferenceTypes :
            ENABLED Transact(Transaction(client, tx, type, ZERO))

C19_FailureIsSkipped ==
    (Applied /\ result # Ok) =>
        /\ SameAccounts(clients, prev)
        /\ StreamGoesOn
        /\ \A transaction \in Transactions :
               LET with == transact(clients, transaction)
                   without == transact(prev, transaction)
               IN  /\ with.result = without.result
                   /\ SameAccounts(with.clients, without.clients)

\* A transaction moved funds right after a failed one.
C19_Witness ==
    /\ before = FailedBefore
    /\ Applied
    /\ result = Ok
    /\ Post.available # Pre.available

(***************************************************************************)
(* C20. From any reachable unlocked account state, a successful deposit of *)
(* amount a under a fresh tx id, followed by a withdrawal of the identical *)
(* amount a under another fresh tx id, returns available and held to their *)
(* pre-deposit values and leaves locked false.                             *)
(***************************************************************************)
WithdrawsLatestDeposit ==
    /\ before.transaction.type = "Deposit"
    /\ last.type = "Withdrawal"
    /\ last.client = before.transaction.client
    /\ last.amount = before.transaction.amount
    /\ last.tx \notin DOMAIN Pre.transactions

C20_DepositWithdrawRoundTrip ==
    WithdrawsLatestDeposit =>
        LET start == Entry(before.clients, last.client)
        IN  /\ Post.available = start.available
            /\ Post.held = start.held
            /\ ~Post.locked

(***************************************************************************)
(* C21. As claimed: any deposit, withdraw, dispute, resolve or chargeback  *)
(* whose new available or new held would exceed the representable range    *)
(* fails with CurrencyError(OutOfBounds) and leaves available, held,       *)
(* records and active_disputes unchanged; no stored balance is ever a      *)
(* wrapped or truncated value.                                             *)
(***************************************************************************)
\* The exact (unbounded) balances the latest call has to store: the new
\* available of a deposit or withdrawal, the new held and new available of a
\* dispute or resolve, the new held of a chargeback.
ExactNewBalances ==
    IF last.type \in AmountTypes
    THEN [available |-> ExactNewAvailable, held |-> Pre.held]
    ELSE IF last.tx \notin DOMAIN Pre.transactions
    THEN [available |-> Pre.available, held |-> Pre.held]
    ELSE LET amount == Pre.transactions[last.tx]
         IN  CASE last.type = "Dispute" ->
                      [available |-> Pre.available - amount,
                       held |-> Pre.held + amount]
               [] last.type = "Resolve" ->
                      [available |-> Pre.available + amount,
                       held |-> Pre.held - amount]
               [] last.type = "Chargeback" ->
                      [available |-> Pre.available,
                       held |-> Pre.held - amount]

WouldOverflow ==
    ~InRange(ExactNewBalances.available) \/ ~InRange(ExactNewBalances.held)

\* Every stored balance is the exact value of its computation.
BalancesAreExact ==
    /\ \A client \in DOMAIN clients :
           InRange(clients[client].available) /\ InRange(clients[client].held)
    /\ (Applied /\ result = Ok) =>
           /\ Post.available = ExactNewBalances.available
           /\ Post.held = ExactNewBalances.held

C21_AsClaimed ==
    /\ BalancesAreExact
    /\ (Applied /\ WouldOverflow) =>
           (result = CurrencyError("OutOfBounds") /\ Post = Pre)

(***************************************************************************)
(* C21, amended. A deposit or withdraw on an unlocked account, and a       *)
(* dispute, resolve or chargeback on any account, whose new available or   *)
(* new held would exceed the representable range fails with                *)
(* CurrencyError(OutOfBounds); a deposit or withdraw on a locked account   *)
(* fails with AccountIsLocked whatever its amount. In both cases every     *)
(* field of the account is unchanged, and no stored balance is ever a      *)
(* wrapped or truncated value.                                             *)
(***************************************************************************)
RefusedAsLocked == last.type \in AmountTypes /\ Pre.locked

C21_OverflowIsRefused ==
    /\ BalancesAreExact
    /\ (Applied /\ WouldOverflow) =>
           /\ result = IF RefusedAsLocked
                       THEN AccountIsLocked
                       ELSE CurrencyError("OutOfBounds")
           /\ Post = Pre

\* A deposit on an unlocked account that holds funds was refused because
\* the new available balance is out of range.
C21_Witness ==
    /\ last.type = "Deposit"
    /\ ~Pre.locked
    /\ Pre.held # ZERO
    /\ WouldOverflow
    /\ result = CurrencyError("OutOfBounds")

(***************************************************************************)
(* C22. withdraw(tx, a) is exactly deposit(tx, -a) for every amount a,     *)
(* negative ones included: same outcome, same resulting state, and on      *)
(* success records[tx] = -a, so the recorded value of a withdrawal of a    *)
(* positive amount is negative and a later dispute of it uses that signed  *)
(* value.                                                                  *)
(***************************************************************************)
C22_WithdrawIsNegatedDeposit ==
    /\ \A client \in DOMAIN clients, tx \in TransactionId :
           \A amount \in CurrencyAmount :
               withdraw(clients[client], tx, amount)
                   = deposit(clients[client], tx, 0 - amount)
    /\ (Applied /\ last.type = "Withdrawal") =>
           /\ Outcome(result, Post) = deposit(Pre, last.tx, 0 - last.amount)
           /\ result = Ok =>
                  /\ last.tx \in DOMAIN Post.transactions
                  /\ Post.transactions[last.tx] = 0 - last.amount
                  /\ Post.available = Pre.available - last.amount
    /\ (Applied /\ last.type = "Dispute" /\ result = Ok) =>
           /\ Post.held = Pre.held + Pre.transactions[last.tx]
           /\ Post.available = Pre.available - Pre.transactions[last.tx]

\* A withdrawal of a negative amount succeeded on an account that held
\* funds: it raised available and recorded a positive value.
C22_Witness ==
    /\ last.type = "Withdrawal"
    /\ last.amount < ZERO
    /\ result = Ok
    /\ Pre.held # ZERO
    /\ Post.transactions[last.tx] > ZERO
    /\ Post.available > Pre.available

(***************************************************************************)
(* C26. The locked flag is monotone: it starts false, changes from false   *)
(* to true only in a successful Chargeback step, and once true is never    *)
(* set back to false by any transaction, successful or failed.             *)
(***************************************************************************)
\* An account is locked exactly when one of its transactions was charged
\* back; an account that has just been created is not.
LockedIffChargedBack ==
    /\ \A client \in DOMAIN clients :
           clients[client].locked <=> \E p \in charged_back : p[1] = client
    /\ (Applied /\ last.client \notin DOMAIN prev) => ~Pre.locked /\ ~Post.locked
    /\ Applied =>
           /\ Pre.locked => Post.locked
           /\ (~Pre.locked /\ Post.locked) =>
                  (last.type = "Chargeback" /\ result = Ok)

LockOnlyByChargeback ==
    \A client \in DOMAIN clients :
        /\ client \in DOMAIN clients'
        /\ clients[client].locked => clients'[client].locked
        /\ (~clients[client].locked /\ clients'[client].locked) =>
               /\ last' = Transaction(client, last'.tx, "Chargeback", ZERO)
               /\ result' = Ok

C26_LockedIsMonotone == []LockedIffChargedBack /\ [][LockOnlyByChargeback]_vars

\* A dispute was resolved with success on a locked account, which stayed
\* locked.
C26_Witness ==
    /\ last.type = "Resolve"
    /\ result = Ok
    /\ Pre.locked
    /\ Post.locked
    /\ Post.available # Pre.available

(***************************************************************************)
(* C27. In every reachable account state, held equals the exact sum of     *)
(* records[tx] over all tx in active_disputes (so held = 0 whenever        *)
(* active_disputes is empty).                                              *)
(***************************************************************************)
RECURSIVE SumOver(_, _)
SumOver(amounts, txs) ==
    IF txs = {} THEN 0
    ELSE LET tx == CHOOSE t \in txs : TRUE
         IN  amounts[tx] + SumOver(amounts, txs \ {tx})

C27_HeldIsSumOfDisputed ==
    \A client \in DOMAIN clients :
        LET self == clients[client]
        IN  /\ self.active_disputes \subseteq DOMAIN self.transactions
            /\ self.held = SumOver(self.transactions, self.active_disputes)
            /\ self.active_disputes = {} => self.held = ZERO

\* A deposit and a withdrawal of different non-zero amounts are both under
\* dispute, and the funds held are their signed sum.
C27_Witness ==
    /\ Applied
    /\ Cardinality(Post.active_disputes) = 2
    /\ \E t, u \in Post.active_disputes :
           /\ Post.transactions[t] > ZERO
           /\ Post.transactions[u] < ZERO
           /\ Post.transactions[t] + Post.transactions[u] # ZERO
    /\ Post.held = SumOver(Post.transactions, Post.active_disputes)
    /\ Post.held # ZERO

(***************************************************************************)
(* C28. In every reachable account state, available + held (as an exact    *)
(* mathematical sum) equals the sum of all values currently in records;    *)
(* equivalently available equals the sum of records[tx] over the tx not in *)
(* active_disputes. Deposits and withdrawals add their signed amount,      *)
(* disputes and resolves preserve the sum, and a chargeback removes        *)
(* exactly the charged-back record's value.                                *)
(***************************************************************************)
RecordsSum(self) == SumOver(self.transactions, DOMAIN self.transactions)

C28_BalancesAreSumOfRecords ==
    /\ \A client \in DOMAIN clients :
           LET self == clients[client]
           IN  /\ self.available + self.held = RecordsSum(self)
               /\ self.available =
                      SumOver(self.transactions,
                              DOMAIN self.transactions \ self.active_disputes)
    /\ (Applied /\ result = Ok) =>
           LET change == (Post.available + Post.held)
                             - (Pre.available + Pre.held)
           IN  CASE last.type = "Deposit" -> change = last.amount
                 [] last.type = "Withdrawal" -> change = 0 - last.amount
                 [] last.type \in {"Dispute", "Resolve"} -> change = 0
                 [] last.type = "Chargeback" ->
                        change = 0 - Pre.transactions[last.tx]

\* A chargeback took a non-zero amount out of an account that keeps another
\* record and funds.
C28_Witness ==
    /\ last.type = "Chargeback"
    /\ result = Ok
    /\ Pre.transactions[last.tx] # ZERO
    /\ DOMAIN Post.transactions # {}
    /\ RecordsSum(Post) # ZERO
    /\ RecordsSum(Post) = RecordsSum(Pre) - Pre.transactions[last.tx]

(***************************************************************************)
(* C29. A Resolve removes tx from active_disputes but keeps it in records, *)
(* so a resolved transaction can be disputed again: dispute, resolve,      *)
(* dispute of the same tx succeeds on the second dispute (arithmetic       *)
(* permitting), any number of times, whereas after a Chargeback it cannot. *)
(***************************************************************************)
\* The latest call disputes the transaction that the call before it
\* resolved with success.
DisputesLatestResolved ==
    /\ before.transaction.type = "Resolve"
    /\ last.type = "Dispute"
    /\ last.client = before.transaction.client
    /\ last.tx = before.transaction.tx

\* The arithmetic of create_dispute on the account and transaction of the
\* latest call is in range.
DisputeArithmeticOk ==
    LET amount == Pre.transactions[last.tx]
    IN  Add(Pre.held, amount).ok /\ Sub(Pre.available, amount).ok

C29_ResolvedCanBeDisputedAgain ==
    /\ (Applied /\ last.type = "Resolve" /\ result = Ok) =>
           /\ last.tx \notin Post.active_disputes
           /\ last.tx \in DOMAIN Post.transactions
           /\ Post.transactions[last.tx] = Pre.transactions[last.tx]
    /\ DisputesLatestResolved =>
           /\ last.tx \in DOMAIN Pre.transactions
           /\ IF DisputeArithmeticOk
              THEN /\ result = Ok
                   /\ last.tx \in Post.active_disputes
                   /\ Post = Entry(before.clients, last.client)
              ELSE result.kind = "CurrencyError"
    /\ (/\ Applied
        /\ last.type = "Dispute"
        /\ <<last.client, last.tx>> \in charged_back) => result # Ok

\* A transaction of non-zero amount was disputed with success right after
\* its dispute had been resolved.
C29_Witness ==
    /\ DisputesLatestResolved
    /\ result = Ok
    /\ Pre.transactions[last.tx] # ZERO
    /\ Post.held # Pre.held

(***************************************************************************)
(* C30. For each client and tx id, a value is written to records[tx] at    *)
(* most once during the whole run: records gains an entry only by a        *)
(* successful deposit or withdraw of a tx id not present, loses one only   *)
(* by a successful chargeback, an existing entry's amount is never         *)
(* modified, and a charged-back tx id can never be recorded again because  *)
(* the account is locked from then on.                                     *)
(***************************************************************************)
RecordedOnce ==
    /\ \A p \in charged_back :
           /\ clients[p[1]].locked
           /\ p[2] \notin DOMAIN clients[p[1]].transactions
    /\ Applied =>
           /\ \A tx \in DOMAIN Post.transactions \ DOMAIN Pre.transactions :
                  /\ tx = last.tx
                  /\ last.type \in AmountTypes
                  /\ result = Ok
                  /\ <<last.client, tx>> \notin charged_back
           /\ \A tx \in DOMAIN Pre.transactions \ DOMAIN Post.transactions :
                  /\ tx = last.tx
                  /\ last.type = "Chargeback"
                  /\ result = Ok
           /\ \A tx \in DOMAIN Pre.transactions \cap DOMAIN Post.transactions :
                  Post.transactions[tx] = Pre.transactions[tx]
           /\ (last.type \in AmountTypes /\ result = Ok) =>
                  last.tx \notin DOMAIN Pre.transactions

RecordsChangeOnlyAsStated ==
    \A client \in DOMAIN clients :
        \A tx \in DOMAIN clients[client].transactions :
            \/ /\ tx \in DOMAIN clients'[client].transactions
               /\ clients'[client].transactions[tx]
                      = clients[client].transactions[tx]
            \/ /\ tx \notin DOMAIN clients'[client].transactions
               /\ last' = Transaction(client, tx, "Chargeback", ZERO)
               /\ result' = Ok

C30_RecordsWrittenOnce == []RecordedOnce /\ [][RecordsChangeOnlyAsStated]_vars

\* A deposit under a recorded tx id, with another amount than the recorded
\* one, was refused and the record kept its amount.
C30_Witness ==
    /\ last.type = "Deposit"
    /\ last.tx \in DOMAIN Pre.transactions
    /\ Pre.transactions[last.tx] # last.amount
    /\ result = TransactionAlreadyExists(last.tx)
    /\ Post.transactions[last.tx] = Pre.transactions[last.tx]

(***************************************************************************)
(* CurrencyAmount on its own (SpecNumeric).                                *)
(***************************************************************************)
Added == calc.op = "Add"

ExactSum == calc.lhs + calc.rhs

FractionLen(t) ==
    IF \E i \in 1..Len(t) : t[i] = "."
    THEN Len(t) - (CHOOSE i \in 1..Len(t) : t[i] = ".")
    ELSE 0

Signed(t) == t # <<>> /\ t[1] = "-"

\* C25: an amount that is formatted and parsed back is the same amount, of
\* the same scale; the text has as many fractional digits as the scale of
\* the amount, trailing zeros included, and starts with a minus sign exactly
\* when the amount is below zero. A text that parses to zero, "-0" among
\* them, is formatted back without a sign.
C25_ParseInvertsFormat ==
    /\ calc.op = "RoundTrip" =>
           /\ calc.parsed.ok
           /\ calc.parsed.value = calc.decimal
           /\ FractionLen(calc.text) = calc.decimal.scale
           /\ Signed(calc.text) <=> calc.decimal.mantissa < 0
    /\ calc.op = "Reformat" =>
           /\ FractionLen(calc.shown) = calc.parsed.value.scale
           /\ Signed(calc.shown) <=> calc.parsed.value.mantissa < 0
           /\ Signed(calc.text) /\ calc.parsed.value.mantissa = 0
                  => ~Signed(calc.shown)

\* A negative amount with a trailing zero, -0.10, has been formatted and
\* parsed back.
C25_Witness ==
    /\ calc.op = "RoundTrip"
    /\ calc.decimal = Dec(0 - 10, 2)
    /\ calc.text = <<"-", "0", ".", "1", "0">>
    /\ calc.parsed = Parsed(Dec(0 - 10, 2))

====
